---- MODULE Spec2Model ----
(***************************************************************************)
(* Token lifecycle of pantry-agent's AuthService (services/auth.service):  *)
(* the user-token manager (getUserToken), the credential file, and the     *)
(* interactive login coordinator (startAuthFlow, the callback listener,    *)
(* its timeout timer and cleanupAuthServer).                               *)
(*                                                                         *)
(* Node runs the service on one event loop: every action below is one      *)
(* uninterrupted run of code between two suspension points (an await on a  *)
(* token exchange, a timer, an incoming HTTP request).                     *)
(***************************************************************************)
EXTENDS Integers, Sequences, FiniteSets, TLC

(* ---------------- bounds of the model ---------------- *)
MaxTicks == 3
MaxCalls == 2
MaxLogins == 2
MaxReqs == 2
MaxIssued == 4
MaxOps == 2

(* ---------------- program constants ---------------- *)
TOKEN_REFRESH_BUFFER_MS == 5 * 60 * 1000
AUTH_TIMEOUT_MS == 5 * 60 * 1000
REDIRECT_PORT == 3000

(* the clock advances by one refresh buffer at a time *)
TickMs == TOKEN_REFRESH_BUFFER_MS

(* expires_in values (seconds) the authority answers with: the first makes *)
(* a token that is already inside the refresh buffer, the second one that  *)
(* is valid for one more tick                                              *)
ExpiresInChoices == {300, 600}

Scopes == {"cart.basic:write", "profile.compact"}

(* the scopes the service asks app tokens for *)
AppScopes == {"product.compact", ""}

(* null is the empty sequence, a value v is <<v>> *)
Null == << >>
Some(v) == << v >>

(* a falsy refreshToken (undefined or '') *)
NoRefresh == 0

CallIds == 1 .. MaxCalls
LoginIds == 1 .. MaxLogins
ReqIds == 1 .. MaxReqs

VARIABLES
    now,        \* Date.now(), in ms
    file,       \* ~/.pantry-agent/tokens.json: [exists, content]
    calls,      \* getUserToken invocations, by id
    issued,     \* the authority: number of token pairs issued so far
    validRefresh, \* the authority: refresh tokens it would still accept
    authServer, \* AuthService.authServer: 0 is null, else the login's id
    authInProgress,
    currentAuthUrl,
    logins,     \* per startAuthFlow that created a listener: server, timer
    reqs,       \* HTTP requests sent to the callback port, by id
    appToken,   \* AuthService.appToken: the cached client-credentials token
    appCalls,   \* getAppToken invocations, by id
    appTokenScope, \* history: the scope the cached app token was asked with
    submitted,  \* refresh tokens submitted to the refresh exchange so far
    spent,      \* refresh tokens submitted by getUserToken calls that have returned
    ev          \* the operation that ran last, its subject and its result

vars == << now, file, calls, issued, validRefresh, authServer, authInProgress,
           currentAuthUrl, logins, reqs, appToken, appCalls, appTokenScope,
           submitted, spent, ev >>

authVars == << authServer, authInProgress, currentAuthUrl, logins >>
userVars == << calls, submitted, spent >>
authorityVars == << issued, validRefresh >>
appVars == << appToken, appCalls, appTokenScope >>

(* the last operation: which one, on which call/request/login, how it    *)
(* ended and what it returned                                            *)
Ev(op, id, how, ret) ==
    [op |-> op, id |-> id, how |-> how, ret |-> ret, url |-> Null, resp |-> Null,
     auth |-> Null, scope |-> Null, out |-> Null]

(* ---------------- credential store ---------------- *)

Tokens(access, refresh, expiresAt, scope) ==
    [accessToken |-> access, refreshToken |-> refresh,
     expiresAt |-> expiresAt, scope |-> scope]

(* the properties of a StoredTokens object *)
Keys == {"accessToken", "refreshToken", "expiresAt", "scope"}

(* what reading a missing property gives, per property: undefined. For   *)
(* expiresAt it is a number below every clock value, because the only    *)
(* use of the property is `expiresAt > now + buffer`, false on undefined *)
NoAccess == 0
NoExpiry == 0 - 1
undefinedOf(k) ==
    CASE k = "accessToken" -> NoAccess
      [] k = "refreshToken" -> NoRefresh
      [] k = "expiresAt" -> NoExpiry
      [] OTHER -> ""

(* JSON.stringify(tokens): the text of an object holding the properties  *)
(* whose value is not undefined. A text is [valid, obj]: whether it is   *)
(* JSON at all, and the object it then denotes                           *)
JSONstringify(tokens) ==
    [valid |-> TRUE,
     obj |-> [k \in {j \in Keys : tokens[j] # undefinedOf(j)} |-> tokens[k]]]

(* JSON.parse(text): the object, or Null where it throws *)
JSONparse(text) == IF text.valid THEN Some(text.obj) ELSE Null

(* the object read as StoredTokens (a cast): property by property *)
prop(obj, k) == IF k \in DOMAIN obj THEN obj[k] ELSE undefinedOf(k)
asStoredTokens(obj) ==
    Tokens(prop(obj, "accessToken"), prop(obj, "refreshToken"),
           prop(obj, "expiresAt"), prop(obj, "scope"))

(* permission bits: 0o600 and 0o700, which the code asks for, and       *)
(* 0o644 and 0o200, which files made by other means can have            *)
MODE_FILE == 384
MODE_DIR == 448
MODE_WIDE == 420
MODE_WRITEONLY == 128
NoMode == 0

(* the file: whether it exists, whether this process may read it, its   *)
(* content (Null for '', else a text), its permission bits and those of *)
(* the directory it is in (NoMode for what does not exist)              *)
NoFile == [exists |-> FALSE, readable |-> TRUE, content |-> Null,
           mode |-> NoMode, dir |-> NoMode]
EmptyFile == [exists |-> TRUE, readable |-> TRUE, content |-> Null,
              mode |-> MODE_FILE, dir |-> MODE_DIR]

(* mkdirSync(CONFIG_DIR, { recursive: true, mode: 0o700 }) when the     *)
(* directory is not there: 37-41                                        *)
ensureConfigDir(f) == IF f.dir = NoMode THEN MODE_DIR ELSE f.dir

(* writeFileSync's mode option: the bits of a file the call creates; a  *)
(* file that is there keeps its own                                     *)
writtenMode(f, mode) == IF f.exists THEN f.mode ELSE mode

(* a read without the try/catch around readFileSync *)
getStoredTokens_noCatch(f) ==
    IF ~f.exists THEN Null
    ELSE IF f.content = Null THEN Null
    ELSE IF JSONparse(f.content[1]) = Null THEN Null
    ELSE Some(asStoredTokens(JSONparse(f.content[1])[1]))

(* a read that answers an empty object where JSON.parse throws *)
getStoredTokens_noParseCatch(f) ==
    IF ~f.exists THEN Null
    ELSE IF ~f.readable THEN Null
    ELSE IF f.content = Null THEN Null
    ELSE IF JSONparse(f.content[1]) = Null THEN Some(asStoredTokens(<< >>))
    ELSE Some(asStoredTokens(JSONparse(f.content[1])[1]))

(* getStoredTokens: null when the file is missing, and when readFileSync *)
(* or JSON.parse throws; else the parsed object as StoredTokens: 68-79   *)
getStoredTokens(f) ==
    IF ~f.exists THEN Null
    ELSE IF ~f.readable THEN Null
    ELSE IF f.content = Null THEN Null
    ELSE IF JSONparse(f.content[1]) = Null THEN Null
    ELSE Some(asStoredTokens(JSONparse(f.content[1])[1]))

(* a clear that writes '' whether or not the file is there *)
clearTokens_creates(f) ==
    [f EXCEPT !.exists = TRUE, !.content = Null,
              !.mode = writtenMode(f, MODE_FILE), !.dir = ensureConfigDir(f)]

(* a write that never reaches the file *)
storeTokens_dropped(f, tokens) == f

(* a write that keeps the properties of the old object the new one lacks *)
storeTokens_merged(f, tokens) ==
    [f EXCEPT
       !.exists = TRUE,
       !.mode = writtenMode(f, MODE_FILE),
       !.dir = ensureConfigDir(f),
       !.content = IF f.content # Null /\ f.content[1].valid
                   THEN Some([valid |-> TRUE,
                              obj |-> [k \in DOMAIN f.content[1].obj
                                             \cup DOMAIN JSONstringify(tokens).obj |->
                                         IF k \in DOMAIN JSONstringify(tokens).obj
                                         THEN tokens[k] ELSE f.content[1].obj[k]]])
                   ELSE Some(JSONstringify(tokens))]

(* storeTokens: writeFileSync replaces the whole content; the mode only  *)
(* applies to a file it creates: 84-87                                   *)
storeTokens(f, tokens) ==
    [f EXCEPT !.exists = TRUE,
              !.content = Some(JSONstringify(tokens)),
              !.mode = writtenMode(f, MODE_FILE),
              !.dir = ensureConfigDir(f)]

(* whether a file holds the text of an object, and that object read as  *)
(* StoredTokens                                                          *)
HoldsObject(f) == f.exists /\ f.content # Null /\ f.content[1].valid
OnDisk(f) == asStoredTokens(f.content[1].obj)

(* a clear that leaves the content in place *)
clearTokens_kept(f) == f

(* clearTokens: truncate the file when it exists *)
clearTokens(f) == IF f.exists THEN [f EXCEPT !.content = Null] ELSE f

(* ---------------- the token response of the authority ---------------- *)

(* the k-th token pair the authority issues *)
TokenResponse(k, expiresIn, withRefresh) ==
    [access_token |-> k,
     refresh_token |-> IF withRefresh THEN k ELSE NoRefresh,
     expires_in |-> expiresIn]

(* ---------------- getUserToken ---------------- *)

(* a call keeps its locals (now, stored) only while it is suspended *)
NewCall == [pc |-> "new", now |-> 0, stored |-> Null, sent |-> << >>, caller |-> ""]
DoneCall == [pc |-> "done", now |-> 0, stored |-> Null, sent |-> << >>, caller |-> ""]

(* the comparison with the wrong sense *)
isAuthenticated_inverted(token) == token = Null

(* isUserAuthenticated's result from getUserToken's: line 142 *)
isAuthenticated(token) == token # Null

(* KrogerService.addToCart and getProfile: they take getUserToken's    *)
(* token, throw AUTH_REQUIRED on a falsy one and else send it to the   *)
(* cart or identity endpoint: kroger.service.ts 171-192                *)
ServiceCallers == {"addToCart", "getProfile"}

apiPath(caller) == IF caller = "addToCart" THEN "/cart/add" ELSE "/identity/profile"

(* a service that never asks for a login *)
authRequired_never(token) == FALSE

(* `!token`: null and undefined are falsy: kroger.service.ts 173, 187 *)
authRequired(token) == token = Null \/ token[1] = NoAccess

(* an error message, as the pieces its consumers tell apart *)
AUTH_REQUIRED_EXACT == << "AUTH_REQUIRED" >>
AUTH_REQUIRED_PREFIX == << "AUTH_REQUIRED", ":" >>

(* message.startsWith(prefix) *)
startsWith(message, prefix) ==
    /\ Len(prefix) <= Len(message)
    /\ SubSeq(message, 1, Len(prefix)) = prefix

(* handleToolError of the MCP tools: part_008 633-661 *)
handleToolError(message) ==
    IF startsWith(message, AUTH_REQUIRED_PREFIX) \/ message = AUTH_REQUIRED_EXACT
    THEN LET authUrl == IF startsWith(message, AUTH_REQUIRED_PREFIX)
                        THEN SubSeq(message, Len(AUTH_REQUIRED_PREFIX) + 1, Len(message))
                        ELSE << >>
         IN  [isError |-> FALSE,
              text |-> << "Kroger authentication is required." >>
                         \o (IF authUrl # << >> THEN << >>
                             ELSE << "Call the kroger_start_auth tool" >>)
                         \o (IF authUrl # << >> THEN << "Open this URL" >> \o authUrl
                             ELSE << >>)
                         \o << "After completing login, please try your request again." >>]
    ELSE [isError |-> TRUE, text |-> << "Error: " >> \o message]

(* the text the CLI reports when it recognises the signal: commands.ts 243 *)
AUTHENTICATION_REQUIRED == "Authentication required. Run the auth command first, then retry."

(* fail(message) of the CLI commands: commands.ts 62-65 *)
fail(message) == [error |-> message, exit |-> 1]

(* the catch of runCommand: commands.ts 240-245 *)
runCommandCatch(message) ==
    IF startsWith(message, << "AUTH_REQUIRED", ":" >>)
    THEN fail(<< AUTHENTICATION_REQUIRED >>)
    ELSE fail(message)

(* the consumers of addToCart: the MCP tool add_to_cart and the CLI's *)
(* `cart add`                                                          *)
ConsumerCallers == {"add_to_cart", "cart add"}

(* what the consumer reports when addToCart threw AUTH_REQUIRED: *)
(* part_008 413-428, commands.ts 203-206 and 219-246             *)
consumed(caller, token) ==
    IF ~authRequired(token) THEN Null
    ELSE IF caller = "add_to_cart" THEN Some(handleToolError(AUTH_REQUIRED_EXACT))
    ELSE Some(runCommandCatch(AUTH_REQUIRED_EXACT))

(* what the caller of the call gets: getUserToken's token, and through    *)
(* isUserAuthenticated also the boolean made from it: lines 140-143       *)
Returned(caller, how, c, token) ==
    IF caller \in ServiceCallers
    THEN [Ev(caller, c, how, Null)
            EXCEPT !.auth = IF authRequired(token) THEN Some("AUTH_REQUIRED") ELSE Null,
                   !.url = IF authRequired(token) THEN Null
                           ELSE Some(<< apiPath(caller), token >>)]
    ELSE IF caller \in ConsumerCallers
    THEN [Ev(caller, c, how, Null)
            EXCEPT !.auth = IF authRequired(token) THEN Some("AUTH_REQUIRED") ELSE Null,
                   !.url = IF authRequired(token) THEN Null
                           ELSE Some(<< apiPath("addToCart"), token >>),
                   !.out = consumed(caller, token)]
    ELSE [Ev(caller, c, how, token)
            EXCEPT !.auth = IF caller = "isUserAuthenticated"
                            THEN Some(isAuthenticated(token)) ELSE Null]

(* the validity test without the refresh buffer on the right side *)
UserTokenBranch_lateBuffer(stored, t) ==
    IF stored = Null THEN "absent"
    ELSE IF stored[1].expiresAt - TOKEN_REFRESH_BUFFER_MS > t + TOKEN_REFRESH_BUFFER_MS
         THEN "valid"
    ELSE IF stored[1].refreshToken = NoRefresh THEN "norefresh"
    ELSE "refresh"

(* the refresh attempted without testing for a refresh token *)
UserTokenBranch_noTokenTest(stored, t) ==
    IF stored = Null THEN "absent"
    ELSE IF stored[1].expiresAt > t + TOKEN_REFRESH_BUFFER_MS THEN "valid"
    ELSE "refresh"

(* which branch of getUserToken a stored value takes at time t *)
UserTokenBranch(stored, t) ==
    IF stored = Null THEN "absent"
    ELSE IF stored[1].expiresAt > t + TOKEN_REFRESH_BUFFER_MS THEN "valid"
    ELSE IF stored[1].refreshToken = NoRefresh THEN "norefresh"
    ELSE "refresh"

(* getUserToken up to its first await, called directly or through       *)
(* isUserAuthenticated: lines 103-121, 141                               *)
UserTokenCall(c, caller) ==
    /\ calls[c].pc = "new"
    /\ \A d \in CallIds : d < c => calls[d].pc # "new"
    /\ LET stored == getStoredTokens(file)
           branch == UserTokenBranch(stored, now)
       IN  \/ /\ branch = "absent"
              /\ calls' = [calls EXCEPT ![c] = DoneCall]
              /\ submitted' = submitted
              /\ ev' = Returned(caller, "absent", c, Null)
           \/ /\ branch = "valid"
              /\ calls' = [calls EXCEPT ![c] = DoneCall]
              /\ submitted' = submitted
              /\ ev' = Returned(caller, "valid", c, Some(stored[1].accessToken))
           \/ /\ branch = "norefresh"
              /\ calls' = [calls EXCEPT ![c] = DoneCall]
              /\ submitted' = submitted
              /\ ev' = Returned(caller, "norefresh", c, Null)
           \/ /\ branch = "refresh"
              /\ calls' = [calls EXCEPT ![c] = [pc |-> "refreshing", now |-> now,
                                                  stored |-> stored,
                                                  sent |-> << stored[1].refreshToken >>,
                                                  caller |-> caller]]
              /\ submitted' = submitted \cup {stored[1].refreshToken}
              /\ ev' = Ev("refreshToken", c, "sent", Null)
    /\ UNCHANGED << now, file, authorityVars, authVars, reqs, spent, appVars >>

GetUserTokenCall(c) == UserTokenCall(c, "getUserToken")

IsUserAuthenticatedCall(c) == UserTokenCall(c, "isUserAuthenticated")

(* addToCart and getProfile up to the await inside getUserToken, or up *)
(* to their throw or their API request                                 *)
AddToCartCall(c) == UserTokenCall(c, "addToCart")

GetProfileCall(c) == UserTokenCall(c, "getProfile")

(* the add_to_cart tool and the `cart add` command, each around addToCart *)
ToolAddToCartCall(c) == UserTokenCall(c, "add_to_cart")

CliCartAddCall(c) == UserTokenCall(c, "cart add")

(* the expiry computed from the clock at the time the response arrives *)
RefreshedTokens_lateClock(call, response) ==
    Tokens(response.access_token, response.refresh_token,
           now + response.expires_in * 1000, call.stored[1].scope)

(* a stored record that keeps the access token it had *)
RefreshedTokens_oldAccess(call, response) ==
    Tokens(call.stored[1].accessToken, response.refresh_token,
           call.now + response.expires_in * 1000, call.stored[1].scope)

(* the stored record getUserToken builds from a refresh response: 122-127 *)
RefreshedTokens(call, response) ==
    Tokens(response.access_token, response.refresh_token,
           call.now + response.expires_in * 1000, call.stored[1].scope)

(* an authority that takes a refresh token any number of times *)
accepts_reusable(valid, refresh) == TRUE

(* the authority takes a refresh token it issued and has not yet taken: *)
(* refresh tokens are single-use (README.md, Token Storage)             *)
accepts(valid, refresh) == refresh \in valid

(* the refresh exchange resolves: lines 121-129 *)
RefreshSucceeds(c) ==
    /\ calls[c].pc = "refreshing"
    /\ accepts(validRefresh, calls[c].stored[1].refreshToken)
    /\ issued < MaxIssued
    /\ \E expiresIn \in ExpiresInChoices, withRefresh \in BOOLEAN :
         LET response == TokenResponse(issued + 1, expiresIn, withRefresh)
             newTokens == RefreshedTokens(calls[c], response)
         IN  /\ issued' = issued + 1
             /\ validRefresh' = (validRefresh \ {calls[c].stored[1].refreshToken})
                                   \cup (IF withRefresh THEN {issued + 1} ELSE {})
             /\ file' = storeTokens(file, newTokens)
             /\ calls' = [calls EXCEPT ![c] = DoneCall]
             /\ ev' = [Returned(calls[c].caller, "refreshed", c, Some(newTokens.accessToken))
                          EXCEPT !.resp = Some(response)]
    /\ spent' = spent \cup {calls[c].stored[1].refreshToken}
    /\ UNCHANGED << now, authVars, reqs, submitted, appVars >>

(* a failed refresh that forgets the app token along with the user's *)
RefreshFails_dropsAppToken(c) ==
    /\ calls[c].pc = "refreshing"
    /\ file' = clearTokens(file)
    /\ calls' = [calls EXCEPT ![c] = DoneCall]
    /\ ev' = Returned(calls[c].caller, "refreshFailed", c, Null)
    /\ spent' = spent \cup {calls[c].stored[1].refreshToken}
    /\ appToken' = Null
    /\ appTokenScope' = Null
    /\ UNCHANGED << now, authorityVars, authVars, reqs, submitted, appCalls >>

(* the refresh exchange rejects (token refused, or the request failed): 130-134 *)
RefreshFails(c) ==
    /\ calls[c].pc = "refreshing"
    /\ file' = clearTokens(file)
    /\ calls' = [calls EXCEPT ![c] = DoneCall]
    /\ ev' = Returned(calls[c].caller, "refreshFailed", c, Null)
    /\ spent' = spent \cup {calls[c].stored[1].refreshToken}
    /\ UNCHANGED << now, authorityVars, authVars, reqs, submitted, appVars >>

(* ---------------- getAppToken ---------------- *)

(* a call keeps its locals (now, scope) only while it is suspended *)
NewAppCall == [pc |-> "new", now |-> 0, scope |-> "", sent |-> << >>]
DoneAppCall == [pc |-> "done", now |-> 0, scope |-> "", sent |-> << >>]

(* the cache test with the buffer subtracted from the expiry as well *)
appTokenValid_lateBuffer(cache, t) ==
    /\ cache # Null
    /\ cache[1].expiresAt - TOKEN_REFRESH_BUFFER_MS > t + TOKEN_REFRESH_BUFFER_MS

(* the cache test of getAppToken: line 51 *)
appTokenValid(cache, t) ==
    /\ cache # Null
    /\ cache[1].expiresAt > t + TOKEN_REFRESH_BUFFER_MS

(* a cache that answers only the scope its token was asked with *)
cacheHit_perScope(cache, cachedScope, scope, t) ==
    appTokenValid(cache, t) /\ cachedScope = Some(scope)

(* when getAppToken answers from the cache: the one test of line 51, in *)
(* which the scope asked for plays no part                              *)
cacheHit(cache, cachedScope, scope, t) == appTokenValid(cache, t)

(* getAppToken up to its return or its await: lines 47-56 *)
GetAppTokenCall(c, scope) ==
    /\ appCalls[c].pc = "new"
    /\ \A d \in CallIds : d < c => appCalls[d].pc # "new"
    /\ \/ /\ cacheHit(appToken, appTokenScope, scope, now)
          /\ appCalls' = [appCalls EXCEPT ![c] = DoneAppCall]
          /\ ev' = [Ev("getAppToken", c, "cached", Some(appToken[1].accessToken))
                       EXCEPT !.scope = Some(scope)]
       \/ /\ ~cacheHit(appToken, appTokenScope, scope, now)
          /\ appCalls' = [appCalls EXCEPT ![c] = [pc |-> "exchanging", now |-> now,
                                                    scope |-> scope, sent |-> << scope >>]]
          /\ ev' = [Ev("getClientToken", c, "sent", Null)
                       EXCEPT !.scope = Some(scope)]
    /\ UNCHANGED << now, file, userVars, authorityVars, authVars, reqs, appToken,
                    appTokenScope >>

(* the cache entry with the expiry taken from the clock when the answer arrives *)
AppTokenEntry_lateClock(call, response) ==
    [accessToken |-> response.access_token,
     expiresAt |-> now + response.expires_in * 1000]

(* the cache entry getAppToken builds: lines 57-60 *)
AppTokenEntry(call, response) ==
    [accessToken |-> response.access_token,
     expiresAt |-> call.now + response.expires_in * 1000]

(* a cache that keeps the entry it has when that one expires later *)
cacheAssign_keepsLater(cache, entry) ==
    IF cache # Null /\ cache[1].expiresAt > entry.expiresAt THEN cache ELSE Some(entry)

(* `this.appToken = {...}`: whatever the cache held is replaced: line 57 *)
cacheAssign(cache, entry) == Some(entry)

(* the client-credentials exchange resolves: lines 56-62 *)
ClientTokenSucceeds(c) ==
    /\ appCalls[c].pc = "exchanging"
    /\ issued < MaxIssued
    /\ \E expiresIn \in ExpiresInChoices :
         LET response == TokenResponse(issued + 1, expiresIn, FALSE)
         IN  /\ issued' = issued + 1
             /\ appToken' = cacheAssign(appToken, AppTokenEntry(appCalls[c], response))
             /\ appTokenScope' = Some(appCalls[c].scope)
             /\ ev' = [Ev("getAppToken", c, "exchanged", Some(appToken'[1].accessToken))
                          EXCEPT !.resp = Some(response)]
    /\ appCalls' = [appCalls EXCEPT ![c] = DoneAppCall]
    /\ UNCHANGED << now, file, userVars, validRefresh, authVars, reqs >>

(* a failing exchange that also drops the stale cache entry *)
ClientTokenFails_dropsCache(c) ==
    /\ appCalls[c].pc = "exchanging"
    /\ appCalls' = [appCalls EXCEPT ![c] = DoneAppCall]
    /\ appToken' = Null
    /\ appTokenScope' = Null
    /\ ev' = Ev("getAppToken", c, "threw", Null)
    /\ UNCHANGED << now, file, userVars, authorityVars, authVars, reqs >>

(* the client-credentials exchange rejects; getAppToken rethrows: line 56 *)
ClientTokenFails(c) ==
    /\ appCalls[c].pc = "exchanging"
    /\ appCalls' = [appCalls EXCEPT ![c] = DoneAppCall]
    /\ ev' = Ev("getAppToken", c, "threw", Null)
    /\ UNCHANGED << now, file, userVars, authorityVars, authVars, reqs, appToken,
                    appTokenScope >>

(* ---------------- interactive login coordinator ---------------- *)

REDIRECT_URI == << "http://localhost", REDIRECT_PORT, "/callback" >>

(* KrogerClient.getAuthorizationUrl, direct mode: the URL carries the      *)
(* redirect URI, response_type=code and the scope                          *)
getAuthorizationUrl(redirectUri, scope) ==
    << "/connect/oauth2/authorize", redirectUri, "code", scope >>

NoLogin == [state |-> "none", scope |-> "", url |-> Null, timer |-> "none",
            deadline |-> 0, outcomes |-> << >>]

(* a pending handleCallback keeps what its caller captured: the listener *)
(* whose handler called it (0 for a direct call) and the scope           *)
NewReq == [pc |-> "new", server |-> 0, scope |-> ""]
DoneReq == [pc |-> "done", server |-> 0, scope |-> ""]

(* a cleanup that forgets to close the listener *)
closeServer_leftOpen(lg, srv) == lg

(* server.close() on the listener that authServer holds: lines 254-257 *)
closeServer(lg, srv) ==
    IF srv # 0 THEN [lg EXCEPT ![srv].state = "closed"] ELSE lg

(* a cleanup that leaves the in-progress flag set *)
cleanupAuthServer_staysBusy(lg) ==
    /\ logins' = closeServer(lg, authServer)
    /\ authServer' = 0
    /\ authInProgress' = authInProgress
    /\ currentAuthUrl' = Null

(* a cleanup that keeps the URL of the login that ended *)
cleanupAuthServer_keepsUrl(lg) ==
    /\ logins' = closeServer(lg, authServer)
    /\ authServer' = 0
    /\ authInProgress' = FALSE
    /\ currentAuthUrl' = currentAuthUrl

(* cleanupAuthServer, as the new values of the coordinator's fields: 253-260 *)
cleanupAuthServer(lg) ==
    /\ logins' = closeServer(lg, authServer)
    /\ authServer' = 0
    /\ authInProgress' = FALSE
    /\ currentAuthUrl' = Null

(* the listener bound to the callback port, 0 when there is none *)
Listening == { l \in LoginIds : logins[l].state = "listening" }
Listener == IF Listening = {} THEN 0 ELSE CHOOSE l \in Listening : TRUE

(* a re-entry that builds a URL for the scope of the second request *)
reentryUrl_regenerated(scope) == getAuthorizationUrl(REDIRECT_URI, scope)

(* the URL startAuthFlow answers with while a login is in progress: 184 *)
reentryUrl(scope) ==
    IF currentAuthUrl # Null THEN currentAuthUrl[1]
    ELSE getAuthorizationUrl(REDIRECT_URI, scope)

(* startAuthFlow: lines 181-248 *)
startAuthFlow(scope) ==
    \/ /\ authInProgress
       /\ ev' = [Ev("startAuthFlow", 0, "reentry", Null)
                    EXCEPT !.url = Some(reentryUrl(scope))]
       /\ UNCHANGED << now, file, userVars, authorityVars, authVars, reqs, appVars >>
    \/ /\ ~authInProgress
       /\ \E l \in LoginIds :
            /\ logins[l].state = "none"
            /\ \A k \in LoginIds : k < l => logins[k].state # "none"
            /\ LET authUrl == getAuthorizationUrl(REDIRECT_URI, scope)
               IN  /\ authInProgress' = TRUE
                   /\ currentAuthUrl' = Some(authUrl)
                   /\ authServer' = l
                   /\ logins' = [logins EXCEPT ![l] =
                          [state |-> "listening", scope |-> scope, url |-> Some(authUrl),
                           timer |-> "pending", deadline |-> now + AUTH_TIMEOUT_MS,
                           outcomes |-> << >>]]
                   /\ ev' = [Ev("startAuthFlow", l, "started", Null)
                                EXCEPT !.url = Some(authUrl)]
       /\ UNCHANGED << now, file, userVars, authorityVars, reqs, appVars >>

(* startAuthFlow while another program holds the callback port: listen  *)
(* (line 238) does not throw, the server emits 'error' on the next tick *)
(* and nothing listens for it, so the error is an uncaught exception:   *)
(* the process ends, or, where its host installed a handler for those,  *)
(* goes on and the caller gets the URL of line 247                      *)
startAuthFlowPortInUse(scope) ==
    /\ ~authInProgress
    /\ \E l \in LoginIds, hostHandlesUncaught \in BOOLEAN :
         /\ logins[l].state = "none"
         /\ \A k \in LoginIds : k < l => logins[k].state # "none"
         /\ LET authUrl == getAuthorizationUrl(REDIRECT_URI, scope)
            IN  /\ authInProgress' = TRUE
                /\ currentAuthUrl' = Some(authUrl)
                /\ authServer' = l
                /\ logins' = [logins EXCEPT ![l] =
                       [state |-> "bindFailed", scope |-> scope, url |-> Some(authUrl),
                        timer |-> "pending", deadline |-> now + AUTH_TIMEOUT_MS,
                        outcomes |-> << >>]]
                /\ ev' = IF hostHandlesUncaught
                         THEN [Ev("startAuthFlow", l, "started", Null)
                                  EXCEPT !.url = Some(authUrl)]
                         ELSE Ev("uncaughtException", l, "EADDRINUSE", Null)
    /\ UNCHANGED << now, file, userVars, authorityVars, reqs, appVars >>

(* the process has not been ended by an uncaught exception *)
Alive == ev.op # "uncaughtException"

AddOutcome(lg, l, o) == [lg EXCEPT ![l].outcomes = Append(@, o)]

(* what url.searchParams.get gives for a query parameter: null when the  *)
(* parameter is not there, else its value, which may be ''               *)
Absent == "null"
CodeValues == {Absent, "", "abc"}
ErrorValues == {Absent, "", "access_denied"}

(* `if (error)` and `!code`: null and '' are both falsy: 199, 205 *)
truthy(v) == v # Absent /\ v # ""

(* the requests that reach the port: any query on /callback, and a path *)
(* that is not the callback                                              *)
Requests ==
    { << "/callback", code, error >> : code \in CodeValues, error \in ErrorValues }
      \cup { << "/", Absent, Absent >> }

(* the same without the parameters that are there and empty *)
PlainRequests == { q \in Requests : q[2] # "" /\ q[3] # "" }

(* a handler that takes every path under the callback for the callback *)
isCallbackPath_lenient(path) == path \in {"/callback", "/callback/"}

(* `url.pathname === '/callback'`: line 195 *)
isCallbackPath(path) == path = "/callback"

(* paths a browser or another local program may ask for *)
OtherPaths == {"/", "/callback/", "/favicon.ico"}

(* every request: the callback's, and other paths with the same queries *)
PathRequests ==
    Requests \cup { << p, code, error >> :
                      p \in OtherPaths, code \in CodeValues, error \in ErrorValues }

(* an HTTP request reaches the callback port; with a listener bound, its   *)
(* request handler runs up to its first await: lines 192-236               *)
HttpRequest(r, path, code, error) ==
    /\ reqs[r].pc = "new"
    /\ \A q \in ReqIds : q < r => reqs[q].pc # "new"
    /\ LET l == Listener
       IN  \/ /\ l = 0     \* nothing listens: the connection is refused
              /\ reqs' = [reqs EXCEPT ![r] = DoneReq]
              /\ ev' = Ev("request", r, "refused", Null)
              /\ UNCHANGED authVars
           \/ /\ l # 0
              /\ ~isCallbackPath(path)
              /\ reqs' = [reqs EXCEPT ![r] = DoneReq]
              /\ ev' = [Ev("request", r, "notfound", Some(404))
                           EXCEPT !.url = Some(<< path, code, error >>)]
              /\ UNCHANGED authVars
           \/ /\ l # 0
              /\ isCallbackPath(path)
              /\ truthy(error)
              /\ reqs' = [reqs EXCEPT ![r] = DoneReq]
              /\ cleanupAuthServer(AddOutcome(logins, l, "error"))
              /\ ev' = [Ev("request", r, "error", Some(400))
                           EXCEPT !.url = Some(<< path, code, error >>)]
           \/ /\ l # 0
              /\ isCallbackPath(path)
              /\ ~truthy(error)
              /\ ~truthy(code)
              /\ reqs' = [reqs EXCEPT ![r] = DoneReq]
              /\ cleanupAuthServer(AddOutcome(logins, l, "malformed"))
              /\ ev' = [Ev("request", r, "malformed", Some(400))
                           EXCEPT !.url = Some(<< path, code, error >>)]
           \/ /\ l # 0
              /\ isCallbackPath(path)
              /\ ~truthy(error)
              /\ truthy(code)
              /\ reqs' = [reqs EXCEPT ![r] = [pc |-> "exchanging", server |-> l,
                                               scope |-> logins[l].scope]]
              /\ ev' = [Ev("exchangeCode", r, "sent", Null)
                           EXCEPT !.url = Some(<< path, code, error >>)]
              /\ UNCHANGED authVars
    /\ UNCHANGED << now, file, userVars, authorityVars, appVars >>

(* a credential whose lifetime is added in seconds *)
CallbackTokens_seconds(response, t, scope) ==
    Tokens(response.access_token, response.refresh_token,
           t + response.expires_in, scope)

(* the StoredTokens handleCallback builds: 152-157 *)
CallbackTokens(response, t, scope) ==
    Tokens(response.access_token, response.refresh_token,
           t + response.expires_in * 1000, scope)

(* the authority answers a code exchange with a new token pair *)
CodeResponses ==
    { TokenResponse(issued + 1, expiresIn, withRefresh) :
        expiresIn \in ExpiresInChoices, withRefresh \in BOOLEAN }

(* a completed exchange whose credential is never written *)
handleCallbackStores_noWrite(r, response) ==
    /\ issued < MaxIssued
    /\ issued' = issued + 1
    /\ validRefresh' = validRefresh \cup (IF response.refresh_token # NoRefresh
                                         THEN {issued + 1} ELSE {})
    /\ file' = file

(* handleCallback after its await (the code exchange answered): 150-159 *)
handleCallbackStores(r, response) ==
    /\ issued < MaxIssued
    /\ issued' = issued + 1
    /\ validRefresh' = validRefresh \cup (IF response.refresh_token # NoRefresh
                                         THEN {issued + 1} ELSE {})
    /\ file' = storeTokens(file, CallbackTokens(response, now, reqs[r].scope))

(* the callback handler after handleCallback returned: lines 219-231 *)
CodeExchangeSucceeds(r) ==
    /\ reqs[r].pc = "exchanging"
    /\ reqs[r].server # 0
    /\ \E response \in CodeResponses :
         /\ handleCallbackStores(r, response)
         /\ ev' = [Ev("request", r, "success", Some(200))
                     EXCEPT !.resp = Some(response)]
    /\ reqs' = [reqs EXCEPT ![r] = DoneReq]
    /\ cleanupAuthServer(AddOutcome(logins, reqs[r].server, "success"))
    /\ UNCHANGED << now, userVars, appVars >>

(* exchangeCode throws: lines 226-231 *)
CodeExchangeFails(r) ==
    /\ reqs[r].pc = "exchanging"
    /\ reqs[r].server # 0
    /\ reqs' = [reqs EXCEPT ![r] = DoneReq]
    /\ cleanupAuthServer(AddOutcome(logins, reqs[r].server, "success"))
    /\ ev' = Ev("request", r, "exchangeFailed", Some(500))
    /\ UNCHANGED << now, file, userVars, authorityVars, appVars >>

(* handleCallback called directly (the CLI's manual code exchange): 148-149 *)
handleCallbackCall(r, scope) ==
    /\ reqs[r].pc = "new"
    /\ \A q \in ReqIds : q < r => reqs[q].pc # "new"
    /\ reqs' = [reqs EXCEPT ![r] = [pc |-> "exchanging", server |-> 0, scope |-> scope]]
    /\ ev' = Ev("exchangeCode", r, "sent", Null)
    /\ UNCHANGED << now, file, userVars, authorityVars, authVars, appVars >>

handleCallbackResolves(r) ==
    /\ reqs[r].pc = "exchanging"
    /\ reqs[r].server = 0
    /\ \E response \in CodeResponses :
         /\ handleCallbackStores(r, response)
         /\ ev' = [Ev("handleCallback", r, "stored", Null)
                     EXCEPT !.resp = Some(response)]
    /\ reqs' = [reqs EXCEPT ![r] = DoneReq]
    /\ UNCHANGED << now, userVars, authVars, appVars >>

handleCallbackRejects(r) ==
    /\ reqs[r].pc = "exchanging"
    /\ reqs[r].server = 0
    /\ reqs' = [reqs EXCEPT ![r] = DoneReq]
    /\ ev' = Ev("handleCallback", r, "threw", Null)
    /\ UNCHANGED << now, file, userVars, authorityVars, authVars, appVars >>

(* a timeout that also logs the user out *)
TimerFires_logsOut(l) ==
    /\ logins[l].timer = "pending"
    /\ now >= logins[l].deadline
    /\ cleanupAuthServer([AddOutcome(logins, l, "timeout") EXCEPT ![l].timer = "fired"])
    /\ file' = clearTokens(file)
    /\ ev' = Ev("timeout", l, "fired", Null)
    /\ UNCHANGED << now, userVars, authorityVars, reqs, appVars >>

(* a timer whose callback forgets the cleanup *)
TimerFires_noCleanup(l) ==
    /\ logins[l].timer = "pending"
    /\ now >= logins[l].deadline
    /\ logins' = [logins EXCEPT ![l].timer = "fired"]
    /\ ev' = Ev("timeout", l, "fired", Null)
    /\ UNCHANGED << now, file, userVars, authorityVars, reqs, appVars,
                    authServer, authInProgress, currentAuthUrl >>

(* the setTimeout callback of login l runs: lines 243-245 *)
TimerFires(l) ==
    /\ logins[l].timer = "pending"
    /\ now >= logins[l].deadline
    /\ cleanupAuthServer([AddOutcome(logins, l, "timeout") EXCEPT ![l].timer = "fired"])
    /\ ev' = Ev("timeout", l, "fired", Null)
    /\ UNCHANGED << now, file, userVars, authorityVars, reqs, appVars >>

(* time passes; a timer that is due runs before the clock moves on *)
Tick ==
    /\ now < MaxTicks * TickMs
    /\ \A l \in LoginIds : logins[l].timer = "pending" => now < logins[l].deadline
    /\ now' = now + TickMs
    /\ ev' = Ev("tick", 0, "", Null)
    /\ UNCHANGED << file, userVars, authorityVars, authVars, reqs, appVars >>

(* ---------------- the store's methods called on their own -------------- *)

(* the credentials a caller hands to storeTokens *)
StoreInputs ==
    { Tokens(a, rt, exp, sc) :
        a \in 1..MaxIssued, rt \in {NoRefresh, 1},
        exp \in {TickMs, 2 * TickMs}, sc \in Scopes }

(* storeTokens(tokens): 84-87; resp keeps the argument *)
StoreTokensCall(tokens) ==
    /\ file' = storeTokens(file, tokens)
    /\ ev' = [Ev("storeTokens", 0, "returned", Null) EXCEPT !.resp = Some(tokens)]
    /\ UNCHANGED << now, userVars, authorityVars, authVars, reqs, appVars >>

(* getStoredTokens(): 68-79; ret is what it returns *)
GetStoredTokensCall ==
    /\ ev' = Ev("getStoredTokens", 0, "returned", getStoredTokens(file))
    /\ UNCHANGED << now, file, userVars, authorityVars, authVars, reqs, appVars >>

(* clearTokens(): 92-96 (the CLI's logout) *)
ClearTokensCall ==
    /\ file' = clearTokens(file)
    /\ ev' = Ev("clearTokens", 0, "returned", Null)
    /\ UNCHANGED << now, userVars, authorityVars, authVars, reqs, appVars >>

(* ---------------- the filesystem refuses a write ---------------- *)

(* the refresh exchange resolves and storeTokens throws inside the try  *)
(* (line 128): the catch of line 130 runs clearTokens and returns null; *)
(* when the clear's own write throws as well, that error leaves         *)
(* getUserToken. A refused write may have truncated the file first.     *)
RefreshStoreFails(c) ==
    /\ calls[c].pc = "refreshing"
    /\ calls[c].stored[1].refreshToken \in validRefresh
    /\ issued < MaxIssued
    /\ \E expiresIn \in ExpiresInChoices, withRefresh \in BOOLEAN,
          clearThrows \in BOOLEAN, truncated \in BOOLEAN :
         LET response == TokenResponse(issued + 1, expiresIn, withRefresh)
         IN  /\ issued' = issued + 1
             /\ validRefresh' = (validRefresh \ {calls[c].stored[1].refreshToken})
                                   \cup (IF withRefresh THEN {issued + 1} ELSE {})
             /\ file' = IF clearThrows /\ ~truncated THEN file ELSE clearTokens(file)
             /\ calls' = [calls EXCEPT ![c] = DoneCall]
             /\ ev' = [(IF clearThrows
                         THEN Ev(calls[c].caller, c, "threw", Null)
                         ELSE Returned(calls[c].caller, "storeFailed", c, Null))
                          EXCEPT !.resp = Some(response)]
    /\ spent' = spent \cup {calls[c].stored[1].refreshToken}
    /\ UNCHANGED << now, authVars, reqs, submitted, appVars >>

(* storeTokens called on its own and refused: the error leaves it, 84-87 *)
StoreTokensThrows(tokens) ==
    /\ \E truncated \in BOOLEAN :
         file' = IF truncated /\ file.exists THEN clearTokens(file) ELSE file
    /\ ev' = [Ev("storeTokens", 0, "threw", Null) EXCEPT !.resp = Some(tokens)]
    /\ UNCHANGED << now, userVars, authorityVars, authVars, reqs, appVars >>

(* clearTokens called on its own and refused: the error leaves it, 92-96 *)
ClearTokensThrows ==
    /\ file.exists
    /\ ev' = Ev("clearTokens", 0, "threw", Null)
    /\ UNCHANGED << now, file, userVars, authorityVars, authVars, reqs, appVars >>

(* what the program can find on its start: nothing, what a previous run *)
(* left, a file somebody made by hand (umask default bits), and a file  *)
(* the process may write but not read                                    *)
InitialFiles ==
    {NoFile, EmptyFile}
      \cup { [EmptyFile EXCEPT
                 !.content = Some([valid |-> TRUE,
                                   obj |-> [accessToken |-> 1, refreshToken |-> 1,
                                            expiresAt |-> exp,
                                            scope |-> "cart.basic:write"]])] :
               exp \in {TickMs, 2 * TickMs} }
      \cup { [EmptyFile EXCEPT
                 !.content = Some([valid |-> TRUE,
                                   obj |-> [accessToken |-> 1, expiresAt |-> exp,
                                            scope |-> "cart.basic:write"]])] :
               exp \in {TickMs, 2 * TickMs} }
      \cup { [EmptyFile EXCEPT
                 !.mode = MODE_WIDE,
                 !.content = Some([valid |-> FALSE, obj |-> << >>])],
              [EmptyFile EXCEPT
                 !.mode = MODE_WIDE,
                 !.content = Some([valid |-> TRUE,
                                   obj |-> [scope |-> "cart.basic:write"]])] }
      \cup { [EmptyFile EXCEPT
                 !.readable = FALSE,
                 !.mode = MODE_WRITEONLY,
                 !.content = Some([valid |-> TRUE,
                                   obj |-> [accessToken |-> 1, refreshToken |-> 1,
                                            expiresAt |-> 2 * TickMs,
                                            scope |-> "cart.basic:write"]])] }

Init ==
    /\ now = 0
    /\ file \in InitialFiles
    /\ calls = [c \in CallIds |-> NewCall]
    /\ issued = 1
    /\ validRefresh \in {{}, {1}}
    /\ authServer = 0
    /\ authInProgress = FALSE
    /\ currentAuthUrl = Null
    /\ logins = [l \in LoginIds |-> NoLogin]
    /\ reqs = [r \in ReqIds |-> NewReq]
    /\ appToken = Null
    /\ appTokenScope = Null
    /\ appCalls = [c \in CallIds |-> NewAppCall]
    /\ submitted = {}
    /\ spent = {}
    /\ ev = Ev("init", 0, "", Null)

(* the user token manager: getUserToken and handleCallback on the store *)
NextUser ==
    \/ \E c \in CallIds : GetUserTokenCall(c)
    \/ \E c \in CallIds : RefreshSucceeds(c)
    \/ \E c \in CallIds : RefreshFails(c)
    \/ \E r \in ReqIds, scope \in Scopes : handleCallbackCall(r, scope)
    \/ \E r \in ReqIds : handleCallbackResolves(r)
    \/ \E r \in ReqIds : handleCallbackRejects(r)
    \/ Tick

SpecUser == Init /\ [][NextUser]_vars

(* isUserAuthenticated next to getUserToken on the same store *)
NextAuth ==
    \/ \E c \in CallIds : IsUserAuthenticatedCall(c)
    \/ \E c \in CallIds : GetUserTokenCall(c)
    \/ \E c \in CallIds : RefreshSucceeds(c)
    \/ \E c \in CallIds : RefreshFails(c)
    \/ Tick

SpecAuth == Init /\ [][NextAuth]_vars

(* the credential store's own methods, in any order *)
NextStore ==
    \/ \E tokens \in StoreInputs : StoreTokensCall(tokens)
    \/ GetStoredTokensCall
    \/ ClearTokensCall

SpecStore == Init /\ [][NextStore]_vars

(* getUserToken and the store's writers on a filesystem that may refuse *)
NextFs ==
    \/ \E c \in CallIds : GetUserTokenCall(c)
    \/ \E c \in CallIds : RefreshSucceeds(c)
    \/ \E c \in CallIds : RefreshFails(c)
    \/ \E c \in CallIds : RefreshStoreFails(c)
    \/ \E tokens \in StoreInputs : StoreTokensThrows(tokens)
    \/ ClearTokensThrows
    \/ Tick

SpecFs == Init /\ [][NextFs]_vars

(* the app token cache: getAppToken *)
NextApp ==
    \/ \E c \in CallIds, scope \in AppScopes : GetAppTokenCall(c, scope)
    \/ \E c \in CallIds : ClientTokenSucceeds(c)
    \/ \E c \in CallIds : ClientTokenFails(c)
    \/ Tick

SpecApp == Init /\ [][NextApp]_vars

(* the login coordinator: startAuthFlow, its listener and its timer *)
NextLogin ==
    \/ \E scope \in Scopes : startAuthFlow(scope)
    \/ \E r \in ReqIds, q \in PlainRequests : HttpRequest(r, q[1], q[2], q[3])
    \/ \E r \in ReqIds : CodeExchangeSucceeds(r)
    \/ \E r \in ReqIds : CodeExchangeFails(r)
    \/ \E l \in LoginIds : TimerFires(l)
    \/ Tick

SpecLogin == Init /\ [][NextLogin]_vars

(* the callback handler on every query a request can carry *)
NextCallback ==
    \/ \E scope \in Scopes : startAuthFlow(scope)
    \/ \E r \in ReqIds, q \in Requests : HttpRequest(r, q[1], q[2], q[3])
    \/ \E r \in ReqIds : CodeExchangeSucceeds(r)
    \/ \E r \in ReqIds : CodeExchangeFails(r)

SpecCallback == Init /\ [][NextCallback]_vars

(* a login through the browser, next to callers asking for the token *)
NextObserve ==
    \/ \E scope \in Scopes : startAuthFlow(scope)
    \/ \E r \in ReqIds, q \in PlainRequests : HttpRequest(r, q[1], q[2], q[3])
    \/ \E r \in ReqIds : CodeExchangeSucceeds(r)
    \/ \E r \in ReqIds : CodeExchangeFails(r)
    \/ \E c \in CallIds : GetUserTokenCall(c)
    \/ \E c \in CallIds : IsUserAuthenticatedCall(c)
    \/ \E c \in CallIds : RefreshSucceeds(c)
    \/ \E c \in CallIds : RefreshFails(c)

SpecObserve == Init /\ [][NextObserve]_vars

(* the cart and profile operations, next to logins *)
NextService ==
    \/ \E c \in CallIds : AddToCartCall(c)
    \/ \E c \in CallIds : GetProfileCall(c)
    \/ \E c \in CallIds : RefreshSucceeds(c)
    \/ \E c \in CallIds : RefreshFails(c)
    \/ \E scope \in Scopes : startAuthFlow(scope)
    \/ \E l \in LoginIds : TimerFires(l)
    \/ Tick

SpecService == Init /\ [][NextService]_vars

(* the login coordinator when the callback port may be taken *)
NextPort ==
    \/ Alive /\ \E scope \in Scopes : startAuthFlow(scope)
    \/ Alive /\ \E scope \in Scopes : startAuthFlowPortInUse(scope)
    \/ Alive /\ \E l \in LoginIds : TimerFires(l)
    \/ Alive /\ Tick

SpecPort == Init /\ [][NextPort]_vars

(* logins that nobody answers, next to callers asking isUserAuthenticated *)
NextTimeout ==
    \/ \E scope \in Scopes : startAuthFlow(scope)
    \/ \E l \in LoginIds : TimerFires(l)
    \/ \E c \in CallIds : IsUserAuthenticatedCall(c)
    \/ \E c \in CallIds : RefreshSucceeds(c)
    \/ \E c \in CallIds : RefreshFails(c)
    \/ Tick

SpecTimeout == Init /\ [][NextTimeout]_vars

(* ---------------- the login coordinator's claims ---------------- *)

(* a request reaches the callback port in this step *)
RequestArrives == \E r \in ReqIds : reqs[r].pc = "new" /\ reqs'[r].pc # "new"

(* one of the four terminal handlers ran in this step *)
TerminalStep ==
    \/ ev'.op = "request" /\ ev'.how \in {"error", "malformed", "success", "exchangeFailed"}
    \/ ev'.op = "timeout"

(* C1: at most one callback listener is bound in every reachable state,    *)
(* and a startAuthFlow made while a login awaits its callback creates no   *)
(* listener and returns the URL the outstanding login returned.            *)
C1_OnePendingLogin ==
    /\ [](Cardinality(Listening) <= 1)
    /\ [][(authInProgress /\ ev'.op = "startAuthFlow")
            => /\ authServer # 0
               /\ logins' = logins
               /\ authServer' = authServer
               /\ ev'.url = logins[authServer].url]_vars

C1_Witness ==
    /\ ev.op = "startAuthFlow"
    /\ ev.how = "reentry"
    /\ Cardinality(Listening) = 1
    /\ ev.url = logins[authServer].url

(* C2: for each login started by startAuthFlow at most one of the terminal *)
(* outcomes (success, error, malformed, timeout) ever fires.               *)
C2_OneOutcomePerLogin == \A l \in LoginIds : Len(logins[l].outcomes) <= 1

(* C3: every terminal transition out of AwaitingCallback closes the        *)
(* listener, leaves the timer of that login no longer pending, and resets  *)
(* the coordinator to Idle.                                                *)
C3_TerminalCleanup ==
    [][(authInProgress /\ TerminalStep)
        => /\ Listening' = {}
           /\ logins'[authServer].timer # "pending"
           /\ ~authInProgress'
           /\ currentAuthUrl' = Null]_vars

(* C4: a request that reaches the callback port after the login's terminal *)
(* transition starts no code exchange, writes nothing to the credential    *)
(* file and leaves the coordinator's state as it was.                      *)
C4_LateCallbackIgnored ==
    [][(RequestArrives /\ ~authInProgress)
        => /\ \A r \in ReqIds : reqs'[r].pc # "exchanging" \/ reqs[r].pc = "exchanging"
           /\ file' = file
           /\ UNCHANGED authorityVars
           /\ UNCHANGED authVars]_vars

C4_Witness ==
    /\ ev.op = "request"
    /\ ev.how = "refused"
    /\ \E l \in LoginIds : logins[l].state = "closed"
    /\ ~authInProgress

(* ---------------- the user token manager's claims ---------------- *)

(* call c runs getUserToken up to its return or its first await in this step *)
CallStarts(c) == calls[c].pc = "new" /\ calls'[c].pc # "new"

(* call c returns in this step *)
CallReturns(c) == calls[c].pc # "done" /\ calls'[c].pc = "done"

(* the step issues no token exchange and no store write *)
NoNetworkNoWrite ==
    /\ submitted' = submitted
    /\ \A c \in CallIds : calls'[c].pc # "refreshing" \/ calls[c].pc = "refreshing"
    /\ UNCHANGED authorityVars
    /\ file' = file

(* every successful refresh replaces the record by the response's pair *)
RefreshOverwrites ==
    \A c \in CallIds :
        (CallReturns(c) /\ ev'.how = "refreshed")
            => /\ getStoredTokens(file') # Null
               /\ getStoredTokens(file')[1].accessToken = ev'.resp[1].access_token
               /\ getStoredTokens(file')[1].refreshToken = ev'.resp[1].refresh_token
               /\ getStoredTokens(file')[1].refreshToken # calls[c].stored[1].refreshToken

(* C5 as stated: a refresh token that was submitted to the refresh         *)
(* exchange is never submitted again, by a later or an overlapping call,   *)
(* and every successful refresh overwrites the stored pair.                *)
C5_NeverResubmitted ==
    [][/\ \A c \in CallIds :
            (CallStarts(c) /\ calls'[c].pc = "refreshing")
                => calls'[c].sent[1] \notin submitted
       /\ RefreshOverwrites]_vars

(* C5 amended: a refresh token is never submitted by a getUserToken call   *)
(* that starts after a call that submitted it has returned (overlapping    *)
(* calls that read the same stale record may both submit it), and every    *)
(* successful refresh overwrites the stored pair.                          *)
C5_NotResubmittedAfterReturn ==
    [][/\ \A c \in CallIds :
            (CallStarts(c) /\ calls'[c].pc = "refreshing")
                => calls'[c].sent[1] \notin spent
       /\ RefreshOverwrites]_vars

C5_Witness ==
    /\ spent # {}
    /\ \E c \in CallIds : calls[c].pc = "refreshing" /\ calls[c].sent[1] \notin spent
    /\ getStoredTokens(file) # Null

(* C6: a successful refresh of a stale record with a refresh token issues  *)
(* one exchange with the stored refresh token, replaces the store by the   *)
(* response's tokens with expiresAt = now-at-call + expires_in*1000 and    *)
(* the stored scope, and returns the new access token.                     *)
C6_RefreshSuccess ==
    [][\A c \in CallIds :
          (CallReturns(c) /\ ev'.how = "refreshed")
            => /\ calls[c].stored[1].expiresAt <= calls[c].now + TOKEN_REFRESH_BUFFER_MS
               /\ calls[c].sent = << calls[c].stored[1].refreshToken >>
               /\ calls[c].stored[1].refreshToken # NoRefresh
               /\ getStoredTokens(file') =
                     Some(Tokens(ev'.resp[1].access_token, ev'.resp[1].refresh_token,
                                 calls[c].now + ev'.resp[1].expires_in * 1000,
                                 calls[c].stored[1].scope))
               /\ ev'.ret = Some(ev'.resp[1].access_token)
               /\ ev'.ret # Some(calls[c].stored[1].accessToken)]_vars

C6_Witness ==
    /\ ev.op = "getUserToken"
    /\ ev.how = "refreshed"
    /\ getStoredTokens(file) # Null
    /\ ev.ret = Some(getStoredTokens(file)[1].accessToken)
    /\ getStoredTokens(file)[1].expiresAt < now + ev.resp[1].expires_in * 1000

(* C7: a failed refresh exchange clears the stored credential and returns  *)
(* absent; the store then reads as absent and getUserToken on it returns   *)
(* absent without a network call.                                          *)
C7_RefreshFailureClears ==
    [][\A c \in CallIds :
          (CallReturns(c) /\ ev'.how = "refreshFailed")
            => /\ ev'.ret = Null
               /\ file'.content = Null
               /\ getStoredTokens(file') = Null
               /\ UserTokenBranch(getStoredTokens(file'), now') = "absent"]_vars

C7_Witness ==
    /\ ev.op = "getUserToken"
    /\ ev.how = "refreshFailed"
    /\ file.exists
    /\ getStoredTokens(file) = Null

(* C8: with a stored credential whose expiresAt > now + 5 minutes,         *)
(* getUserToken returns the stored access token, issues no network call    *)
(* and leaves the store unchanged.                                         *)
C8_ValidTokenReturned ==
    [][\A c \in CallIds :
          (/\ CallStarts(c)
           /\ HoldsObject(file) /\ file.readable
           /\ OnDisk(file).expiresAt > now + TOKEN_REFRESH_BUFFER_MS)
            => /\ calls'[c].pc = "done"
               /\ ev'.ret = Some(OnDisk(file).accessToken)
               /\ NoNetworkNoWrite]_vars

C8_Witness ==
    /\ ev.op = "getUserToken"
    /\ ev.how = "valid"
    /\ getStoredTokens(file) # Null
    /\ ev.ret = Some(getStoredTokens(file)[1].accessToken)

(* C9: with a stored credential that is expired or expiring and has no     *)
(* refresh token, getUserToken returns absent, issues no network call and  *)
(* leaves the credential in place.                                         *)
C9_NoRefreshTokenLeftInPlace ==
    [][\A c \in CallIds :
          (/\ CallStarts(c)
           /\ HoldsObject(file) /\ file.readable
           /\ OnDisk(file).expiresAt <= now + TOKEN_REFRESH_BUFFER_MS
           /\ OnDisk(file).refreshToken = NoRefresh)
            => /\ calls'[c].pc = "done"
               /\ ev'.ret = Null
               /\ NoNetworkNoWrite]_vars

C9_Witness ==
    /\ ev.op = "getUserToken"
    /\ ev.how = "norefresh"
    /\ getStoredTokens(file) # Null
    /\ getStoredTokens(file)[1].refreshToken = NoRefresh

(* C10: with no file, an unreadable file or a cleared file, getUserToken   *)
(* returns absent at once, with no network call and no store write.        *)
C10_AbsentStore ==
    [][\A c \in CallIds :
          (/\ CallStarts(c)
           /\ (~file.exists \/ ~file.readable \/ file.content = Null))
            => /\ calls'[c].pc = "done"
               /\ ev'.ret = Null
               /\ NoNetworkNoWrite]_vars

C10_Witness ==
    /\ ev.op = "getUserToken"
    /\ ev.how = "absent"
    /\ (~file.exists \/ ~file.readable \/ file.content = Null)

(* ---------------- the app token cache's claims ---------------- *)

AppCallStarts(c) == appCalls[c].pc = "new" /\ appCalls'[c].pc # "new"
AppCallReturns(c) == appCalls[c].pc # "done" /\ appCalls'[c].pc = "done"

(* C11: with a cached app token whose expiresAt > now + 5 minutes,         *)
(* getAppToken returns the cached access token, performs no exchange and   *)
(* leaves the cache unchanged.                                             *)
C11_CachedAppToken ==
    [][\A c \in CallIds :
          (/\ AppCallStarts(c)
           /\ appToken # Null
           /\ appToken[1].expiresAt > now + TOKEN_REFRESH_BUFFER_MS)
            => /\ appCalls'[c].pc = "done"
               /\ ev'.op = "getAppToken"
               /\ ev'.ret = Some(appToken[1].accessToken)
               /\ appToken' = appToken
               /\ UNCHANGED authorityVars]_vars

C11_Witness ==
    /\ ev.op = "getAppToken"
    /\ ev.how = "cached"
    /\ appToken # Null
    /\ ev.ret = Some(appToken[1].accessToken)
    /\ now > 0

(* C12: with no cached app token or one whose expiresAt <= now + 5         *)
(* minutes, a getAppToken(scope) call issues one client-credentials        *)
(* exchange for that scope and, when it succeeds, caches the response's    *)
(* token with expiresAt = now-at-call + expires_in*1000 and returns it.    *)
C12_AppTokenExchange ==
    [][\A c \in CallIds :
          /\ (/\ AppCallStarts(c)
               /\ (appToken = Null
                     \/ appToken[1].expiresAt <= now + TOKEN_REFRESH_BUFFER_MS))
                => /\ appCalls'[c].pc = "exchanging"
                   /\ Len(appCalls'[c].sent) = 1
                   /\ appCalls'[c].now = now
                   /\ appToken' = appToken
          /\ (AppCallReturns(c) /\ ev'.how = "exchanged")
                => /\ appCalls[c].sent = << appCalls[c].scope >>
                   /\ appToken' = Some([accessToken |-> ev'.resp[1].access_token,
                                         expiresAt |-> appCalls[c].now
                                                         + ev'.resp[1].expires_in * 1000])
                   /\ ev'.ret = Some(ev'.resp[1].access_token)]_vars

C12_Witness ==
    /\ ev.op = "getAppToken"
    /\ ev.how = "exchanged"
    /\ appToken # Null
    /\ appToken[1].expiresAt < now + ev.resp[1].expires_in * 1000

(* C13: when the client-credentials exchange fails, getAppToken throws     *)
(* and the cached entry, stale or absent, is what it was before.           *)
C13_AppExchangeFailure ==
    [][\A c \in CallIds :
          (appCalls[c].pc = "exchanging" /\ appCalls'[c].pc = "done"
              /\ ev'.how # "exchanged")
            => /\ ev'.how = "threw"
               /\ ev'.ret = Null
               /\ appToken' = appToken]_vars

C13_Witness ==
    /\ ev.op = "getAppToken"
    /\ ev.how = "threw"
    /\ appToken # Null

(* ---------------- isUserAuthenticated ---------------- *)

(* C14: isUserAuthenticated answers true exactly when getUserToken yields  *)
(* a token, and acts on the store as getUserToken does: nothing on the     *)
(* branches that return at once, the refreshed record after a successful   *)
(* refresh, a cleared store after a rejected one.                          *)
C14_IsAuthenticatedIsGetUserToken ==
    [][\A c \in CallIds :
          /\ (CallStarts(c) /\ ev'.op = "isUserAuthenticated")
                => LET branch == UserTokenBranch(getStoredTokens(file), now)
                   IN  /\ ev'.auth = Some(branch = "valid")
                       /\ branch \in {"absent", "valid", "norefresh"}
                       /\ ev'.auth = Some(ev'.ret # Null)
                       /\ NoNetworkNoWrite
          /\ (CallStarts(c) /\ calls'[c].pc = "refreshing"
                 /\ calls'[c].caller = "isUserAuthenticated")
                => /\ UserTokenBranch(getStoredTokens(file), now) = "refresh"
                   /\ calls'[c].sent = << getStoredTokens(file)[1].refreshToken >>
                   /\ file' = file
          /\ (CallReturns(c) /\ calls[c].caller = "isUserAuthenticated")
                => /\ ev'.op = "isUserAuthenticated"
                   /\ ev'.how \in {"refreshed", "refreshFailed"}
                   /\ ev'.auth = Some(ev'.how = "refreshed")
                   /\ ev'.auth = Some(ev'.ret # Null)
                   /\ ev'.how = "refreshed"
                        => getStoredTokens(file')
                             = Some(RefreshedTokens(calls[c], ev'.resp[1]))
                   /\ ev'.how = "refreshFailed" => getStoredTokens(file') = Null
          /\ (CallReturns(c) /\ ev'.op = "getUserToken") => ev'.auth = Null]_vars

C14_Witness ==
    /\ ev.op = "isUserAuthenticated"
    /\ ev.how = "refreshed"
    /\ ev.auth = Some(TRUE)
    /\ getStoredTokens(file) # Null
    /\ ev.ret = Some(getStoredTokens(file)[1].accessToken)

(* ---------------------------------------------------------------- *)
(* C15: handleCallback (completeLogin) exchanges the code; when the   *)
(* exchange answers, the file afterwards holds a credential with the  *)
(* response's access and refresh token, expiresAt = the clock read    *)
(* after the exchange + expires_in * 1000, and the scope the caller   *)
(* gave; when the exchange throws, the call throws and the file is    *)
(* what it was.                                                       *)
C15_CompleteLogin ==
    [][\A r \in ReqIds :
         (reqs[r].pc = "exchanging" /\ reqs[r].server = 0 /\ reqs'[r].pc = "done")
         => /\ ev'.op = "handleCallback" /\ ev'.id = r
            /\ ev'.how \in {"stored", "threw"}
            /\ ev'.how = "stored"
                 => /\ ev'.resp # Null
                    /\ HoldsObject(file')
                    /\ OnDisk(file') =
                         Tokens(ev'.resp[1].access_token,
                                ev'.resp[1].refresh_token,
                                now' + ev'.resp[1].expires_in * 1000,
                                reqs[r].scope)
            /\ ev'.how = "threw" => file' = file]_vars

(* a completed login stored a credential that expires later than the  *)
(* refresh buffer, over a file that held something else               *)
C15_Witness ==
    /\ ev.op = "handleCallback" /\ ev.how = "stored"
    /\ HoldsObject(file)
    /\ OnDisk(file).accessToken = ev.resp[1].access_token
    /\ OnDisk(file).accessToken > 1
    /\ OnDisk(file).expiresAt = now + ev.resp[1].expires_in * 1000
    /\ now > 0

C17_ReadNeverThrows ==
    [][ev'.op = "getStoredTokens"
         => /\ ev'.how = "returned"
            /\ file' = file
            /\ (\/ ~file.exists
                 \/ ~file.readable
                 \/ file.content = Null
                 \/ ~file.content[1].valid) => ev'.ret = Null]_vars

(* a read of a readable file whose text is not JSON returned null *)
C17_Witness ==
    /\ ev.op = "getStoredTokens" /\ ev.how = "returned" /\ ev.ret = Null
    /\ file.exists /\ file.readable
    /\ file.content # Null /\ ~file.content[1].valid

(* ---------------------------------------------------------------- *)
(* C18: a read of a file whose content is JSON but no credential      *)
(* record (the object lacks accessToken or expiresAt) returns null.   *)
C18_ShapeChecked ==
    [][(/\ ev'.op = "getStoredTokens"
        /\ HoldsObject(file) /\ file.readable
        /\ \/ "accessToken" \notin DOMAIN file.content[1].obj
           \/ "expiresAt" \notin DOMAIN file.content[1].obj)
         => ev'.ret = Null]_vars

(* ---------------------------------------------------------------- *)
(* C19: clearTokens returns without error; on a file that does not    *)
(* exist or is already '' it changes nothing; a second clear changes  *)
(* nothing the first left; a read after a clear returns null.         *)
C19_ClearIdempotent ==
    [][ev'.op = "clearTokens"
         => /\ ev'.how = "returned"
            /\ (~file.exists \/ file.content = Null) => file' = file
            /\ clearTokens(file') = file'
            /\ getStoredTokens(file') = Null]_vars

(* a clear of a store that was never written left it without a file *)
C19_Witness ==
    /\ ev.op = "clearTokens" /\ ev.how = "returned"
    /\ ~file.exists

(* ---------------------------------------------------------------- *)
(* C20: when the refresh exchange of a getUserToken call answered and *)
(* the new credential did not reach the file (the write was refused), *)
(* the call throws: it does not return null.                          *)
C20_WriteErrorSurfaces ==
    [][\A c \in CallIds :
         (/\ CallReturns(c) /\ ev'.resp # Null
          /\ ~(HoldsObject(file')
                /\ OnDisk(file').accessToken = ev'.resp[1].access_token))
         => ev'.how = "threw"]_vars

(* ---------------------------------------------------------------- *)
(* a request reaches the callback handler of a listener in this step *)
CallbackHandled ==
    /\ ev'.op \in {"request", "exchangeCode"}
    /\ ev'.url # Null
    /\ ev'.url[1][1] = "/callback"
    /\ \E r \in ReqIds : reqs[r].pc = "new" /\ reqs'[r].pc # "new"

(* the step sends no authorization code to the authority and leaves  *)
(* the file alone                                                     *)
NoExchangeNoWrite ==
    /\ \A r \in ReqIds : reqs'[r].pc = "exchanging" => reqs[r].pc = "exchanging"
    /\ UNCHANGED authorityVars
    /\ file' = file

(* C21: a callback that carries an error parameter ends the login as  *)
(* CallbackError whether or not it carries a code, one that carries   *)
(* neither ends it as CallbackMalformed, both without an exchange and *)
(* without a write; an exchange is sent only for a callback that      *)
(* carries a code and no error parameter.                             *)
C21_CallbackClassification ==
    [][CallbackHandled =>
         LET code == ev'.url[1][2]
             error == ev'.url[1][3]
         IN  /\ error # Absent
                  => ev'.how = "error" /\ ev'.ret = Some(400) /\ NoExchangeNoWrite
             /\ (error = Absent /\ code = Absent)
                  => ev'.how = "malformed" /\ ev'.ret = Some(400) /\ NoExchangeNoWrite
             /\ ev'.op = "exchangeCode" => code # Absent /\ error = Absent]_vars

(* ---------------------------------------------------------------- *)
(* C22: when the code exchange a callback started fails, the request  *)
(* is answered with status 500, the cleanup runs (no listener bound,  *)
(* the listener of that login closed, coordinator Idle), no exchange  *)
(* is sent again, and the file and the authority are left alone.      *)
C22_ExchangeFailureCleansUp ==
    [][\A r \in ReqIds :
         (/\ reqs[r].pc = "exchanging" /\ reqs[r].server # 0
          /\ reqs'[r].pc = "done" /\ ev'.how = "exchangeFailed")
         => /\ ev'.op = "request" /\ ev'.id = r /\ ev'.ret = Some(500)
            /\ Listening' = {}
            /\ logins'[reqs[r].server].state = "closed"
            /\ authServer' = 0 /\ ~authInProgress' /\ currentAuthUrl' = Null
            /\ NoExchangeNoWrite]_vars

(* a failed exchange ended a login whose timer is still to fire *)
C22_Witness ==
    /\ ev.op = "request" /\ ev.how = "exchangeFailed" /\ ev.ret = Some(500)
    /\ ~authInProgress /\ Listening = {}
    /\ \E l \in LoginIds :
         /\ logins[l].state = "closed" /\ logins[l].timer = "pending"
         /\ logins[l].outcomes = << "success" >>

(* ---------------------------------------------------------------- *)
(* C23: when the timer of a login fires while its listener still      *)
(* waits, the listener is closed and the coordinator is Idle, nothing *)
(* is thrown to anyone (no pending call changes), the file is left    *)
(* alone, and so is what getUserToken would decide on it.             *)
C23_SilentTimeout ==
    [][\A l \in LoginIds :
         (logins[l].state = "listening" /\ logins[l].timer = "pending"
          /\ logins'[l].timer = "fired")
         => /\ ev'.op = "timeout" /\ ev'.how = "fired"
            /\ logins'[l].state = "closed" /\ Listening' = {}
            /\ authServer' = 0 /\ ~authInProgress' /\ currentAuthUrl' = Null
            /\ file' = file /\ calls' = calls /\ reqs' = reqs
            /\ UserTokenBranch(getStoredTokens(file'), now')
                 = UserTokenBranch(getStoredTokens(file), now)]_vars

(* after a login that only timed out, isUserAuthenticated answered    *)
(* false                                                              *)
C23_Witness ==
    /\ ev.op = "isUserAuthenticated" /\ ev.auth = Some(FALSE)
    /\ ~authInProgress /\ Listening = {}
    /\ \E l \in LoginIds :
         logins[l].state = "closed" /\ logins[l].outcomes = << "timeout" >>

(* ---------------------------------------------------------------- *)
(* C30: the listener of a login whose own timeout is not yet due is   *)
(* closed only by that login's own callback.                          *)
C30_OwnTerminalOnly ==
    [][\A l \in LoginIds :
         (/\ logins[l].state = "listening" /\ logins'[l].state = "closed"
          /\ now < logins[l].deadline)
         => \/ ev'.op = "request" /\ ev'.how \in {"error", "malformed"}
            \/ /\ ev'.op = "request" /\ ev'.how \in {"success", "exchangeFailed"}
               /\ reqs[ev'.id].server = l]_vars

(* ---------------------------------------------------------------- *)
(* C24: a startAuthFlow whose listener cannot bind the callback port  *)
(* throws to its caller and returns no authorization URL.             *)
C24_BindFailureReported ==
    [][\A l \in LoginIds :
         (logins[l].state = "none" /\ logins'[l].state = "bindFailed")
         => /\ ev'.op = "startAuthFlow" /\ ev'.how = "threw"
            /\ ev'.url = Null]_vars

ReturnsBeforeCallback ==
    (ev'.op = "startAuthFlow" /\ ev'.how = "started")
    => /\ ev'.url # Null
       /\ logins'[ev'.id].state = "listening"
       /\ logins'[ev'.id].outcomes = << >>
       /\ reqs' = reqs
       /\ NoExchangeNoWrite

(* the call that directly follows a callback whose exchange answered  *)
(* with a lifetime above the refresh buffer                           *)
CallAfterLogin ==
    /\ ev.op = "request" /\ ev.how = "success"
    /\ ev.resp[1].expires_in * 1000 > TOKEN_REFRESH_BUFFER_MS
    /\ \E c \in CallIds : CallStarts(c)

(* that call returns the access token of the exchange, and true       *)
(* through isUserAuthenticated, without a network call                *)
FindsFreshToken ==
    /\ ev'.op \in {"getUserToken", "isUserAuthenticated"}
    /\ ev'.how = "valid"
    /\ ev'.ret = Some(ev.resp[1].access_token)
    /\ ev'.op = "isUserAuthenticated" => ev'.auth = Some(TRUE)
    /\ NoNetworkNoWrite

C27_OwnerOnly ==
    [][/\ (ev'.op = "storeTokens" /\ ev'.how = "returned")
            => /\ file'.mode = MODE_FILE
               /\ file.dir = NoMode => file'.dir = MODE_DIR
       /\ (ev'.op = "clearTokens" /\ ev'.how = "returned" /\ file.exists)
            => file'.mode = MODE_FILE]_vars

(* ---------------------------------------------------------------- *)
(* C28: a getUserToken that reads the stale credential another call   *)
(* is refreshing submits the same refresh token; the exchange of a    *)
(* call succeeds only with a token the authority has not taken, and   *)
(* takes it; a call whose token has been taken returns null and       *)
(* leaves a store that reads as absent.                               *)
C28_OverlappingRefresh ==
    [][\A d \in CallIds :
         /\ \A c \in CallIds \ {d} :
              (/\ calls[c].pc = "refreshing" /\ CallStarts(d)
               /\ getStoredTokens(file) = calls[c].stored)
              => /\ calls'[d].pc = "refreshing"
                 /\ calls'[d].sent = calls[c].sent
         /\ (CallReturns(d) /\ ev'.how = "refreshed")
              => /\ calls[d].sent[1] \in validRefresh
                 /\ calls[d].sent[1] \notin validRefresh'
         /\ (/\ CallReturns(d) /\ calls[d].pc = "refreshing"
             /\ calls[d].sent[1] \in spent
             /\ calls[d].sent[1] \notin validRefresh)
              => /\ ev'.how = "refreshFailed" /\ ev'.ret = Null
                 /\ getStoredTokens(file') = Null]_vars

(* one of two calls that submitted the same token has returned the    *)
(* refreshed token; the other still waits with the token now taken    *)
C28_Witness ==
    /\ ev.how = "refreshed"
    /\ \E d \in CallIds :
         /\ calls[d].pc = "refreshing"
         /\ calls[d].sent[1] \in spent
         /\ calls[d].sent[1] \notin validRefresh

(* ---------------------------------------------------------------- *)
(* C29 as stated: a call whose refresh failed leaves the file alone   *)
(* when the file holds another credential than the one the call read  *)
(* (one a successful refresh or login stored meanwhile); and a call   *)
(* that returns a refreshed token leaves its credential in the file.  *)
C29_ClearOnlyRejected ==
    [][\A d \in CallIds :
         /\ (/\ CallReturns(d) /\ ev'.how = "refreshFailed"
             /\ getStoredTokens(file) # Null
             /\ getStoredTokens(file) # calls[d].stored)
              => file' = file
         /\ (CallReturns(d) /\ ev'.how = "refreshed")
              => /\ HoldsObject(file')
                 /\ OnDisk(file').accessToken = ev'.resp[1].access_token]_vars

(* C29: a call whose refresh failed empties the file whatever it      *)
(* holds, the credential an overlapping call or a login stored        *)
(* meanwhile included; a call that returns a refreshed token leaves   *)
(* its credential in the file at that moment.                         *)
C29_ClearErasesWhateverIsThere ==
    [][\A d \in CallIds :
         /\ (CallReturns(d) /\ ev'.how = "refreshFailed")
              => /\ file'.exists = file.exists
                 /\ file'.content = Null
         /\ (CallReturns(d) /\ ev'.how = "refreshed")
              => /\ HoldsObject(file')
                 /\ OnDisk(file').accessToken = ev'.resp[1].access_token]_vars

(* a failed refresh has emptied the file while the authority holds a  *)
(* newer refresh token that an overlapping refresh had stored         *)
C29_Witness ==
    /\ ev.how = "refreshFailed"
    /\ file.exists /\ file.content = Null
    /\ \E t \in validRefresh : t > 1
    /\ \A r \in ReqIds : reqs[r].pc = "new"


(* ---------------- one exchange per pending login ---------------- *)

(* the code exchanges in flight that the handler of listener l started *)
ExchangesOf(l) == { q \in ReqIds : reqs[q].pc = "exchanging" /\ reqs[q].server = l }

(* C31: at most one authorization-code exchange is issued per pending      *)
(* login: a callback with a code that arrives while the exchange of an     *)
(* earlier callback of the same login is in flight starts no exchange, and *)
(* the credential file is written at most once for the login.              *)
C31_OneExchangePerLogin ==
    /\ [](\A l \in LoginIds : Cardinality(ExchangesOf(l)) <= 1)
    /\ [][\A r \in ReqIds :
            (/\ reqs[r].pc = "exchanging"
             /\ reqs[r].server # 0
             /\ ev'.op = "request" /\ ev'.id = r /\ ev'.how = "success")
            => ~ \E o \in 1..Len(logins[reqs[r].server].outcomes) :
                    logins[reqs[r].server].outcomes[o] = "success"]_vars


(* ---------------- every pending login ends ---------------- *)

(* the timeout of a login started now falls inside the modelled time *)
DeadlineInHorizon == now + AUTH_TIMEOUT_MS <= MaxTicks * TickMs

(* the login coordinator with a clock that goes on and timers that run;  *)
(* the authority may leave a code exchange unanswered, or refuse it      *)
NextLive ==
    \/ DeadlineInHorizon /\ \E scope \in Scopes : startAuthFlow(scope)
    \/ \E r \in ReqIds, q \in PlainRequests : HttpRequest(r, q[1], q[2], q[3])
    \/ \E r \in ReqIds : CodeExchangeFails(r)
    \/ \E l \in LoginIds : TimerFires(l)
    \/ Tick

(* the event loop runs a timer that is due, and time passes: 243-245 *)
SpecLive ==
    /\ Init
    /\ [][NextLive]_vars
    /\ WF_vars(Tick)
    /\ \A l \in LoginIds : WF_vars(TimerFires(l))

(* C32: every pending login eventually ends: whenever the coordinator is   *)
(* awaiting a callback it later is idle with no listener bound, whether or *)
(* not a callback ever arrives, given that a due timer eventually runs.     *)
C32_PendingLoginEnds ==
    authInProgress ~> (~authInProgress /\ authServer = 0 /\ Listening = {})

(* a login that no request ever reached was ended by its timer *)
C32_Witness ==
    /\ ev.op = "timeout"
    /\ ~authInProgress /\ authServer = 0 /\ Listening = {}
    /\ \A r \in ReqIds : reqs[r].pc = "new"
    /\ \E l \in LoginIds : logins[l].outcomes = << "timeout" >>


(* ---------------- one app token for every scope ---------------- *)

(* C33: the app token cache holds one token per process, not one per       *)
(* scope: while the cached token has expiresAt > now + 5 minutes, a        *)
(* getAppToken asked with another scope than the token was obtained with   *)
(* returns that cached token and performs no exchange.                     *)
C33_OneTokenForAllScopes ==
    [][\A c \in CallIds :
          (/\ AppCallStarts(c)
           /\ appToken # Null
           /\ appToken[1].expiresAt > now + TOKEN_REFRESH_BUFFER_MS
           /\ ev'.scope # appTokenScope)
            => /\ appCalls'[c].pc = "done"
               /\ ev'.op = "getAppToken" /\ ev'.how = "cached"
               /\ ev'.ret = Some(appToken[1].accessToken)
               /\ appToken' = appToken
               /\ UNCHANGED authorityVars]_vars

(* a token obtained with one scope was returned to a call asking another *)
C33_Witness ==
    /\ ev.op = "getAppToken" /\ ev.how = "cached"
    /\ appToken # Null
    /\ ev.ret = Some(appToken[1].accessToken)
    /\ appTokenScope # Null
    /\ ev.scope # appTokenScope


(* ---------------- overlapping getAppToken calls ---------------- *)

(* the getAppToken calls other than c that await their exchange *)
OtherExchanges(c) == { d \in CallIds : d # c /\ appCalls[d].pc = "exchanging" }

(* C34: overlapping getAppToken calls made while the cache is stale or     *)
(* empty each issue their own client-credentials exchange, each returns    *)
(* the token of its own exchange, and every completed exchange overwrites  *)
(* the cache, so that the exchange completed last is the one cached.       *)
C34_OverlappingAppCalls ==
    [][\A c \in CallIds :
          /\ (/\ AppCallStarts(c)
              /\ OtherExchanges(c) # {}
              /\ (appToken = Null
                    \/ appToken[1].expiresAt <= now + TOKEN_REFRESH_BUFFER_MS))
                => /\ appCalls'[c].pc = "exchanging"
                   /\ appCalls'[c].sent = << ev'.scope[1] >>
                   /\ \A d \in OtherExchanges(c) : appCalls'[d] = appCalls[d]
          /\ (AppCallReturns(c) /\ ev'.how = "exchanged")
                => /\ ev'.id = c
                   /\ ev'.ret = Some(ev'.resp[1].access_token)
                   /\ appToken' # Null
                   /\ appToken'[1].accessToken = ev'.resp[1].access_token
                   /\ issued' = issued + 1
                   /\ \A d \in OtherExchanges(c) : appCalls'[d] = appCalls[d]]_vars

(* calls begin in the order of their ids, so when call 1 completes its  *)
(* exchange after another token was issued, call 2 began and completed   *)
(* while call 1 was waiting: the cache holds the token of call 1, the    *)
(* last to complete                                                       *)
C34_Witness ==
    /\ ev.op = "getAppToken" /\ ev.how = "exchanged"
    /\ ev.id = 1
    /\ issued = 3
    /\ ev.ret = Some(3)
    /\ appToken # Null
    /\ appToken[1].accessToken = 3


(* ---------------- every operation of the service together -------------- *)

(* the operations begun so far: token calls, app token calls, requests to *)
(* the callback port or manual code exchanges, and logins                  *)
OpsStarted ==
    Cardinality({ c \in CallIds : calls[c].pc # "new" })
      + Cardinality({ c \in CallIds : appCalls[c].pc # "new" })
      + Cardinality({ r \in ReqIds : reqs[r].pc # "new" })
      + Cardinality({ l \in LoginIds : logins[l].state # "none" })

WithinOps == OpsStarted < MaxOps

(* the token managers, the login coordinator and the CLI's logout and     *)
(* manual code exchange on one AuthService                                 *)
NextAll ==
    \/ WithinOps /\ \E c \in CallIds : GetUserTokenCall(c)
    \/ WithinOps /\ \E c \in CallIds : IsUserAuthenticatedCall(c)
    \/ \E c \in CallIds : RefreshSucceeds(c)
    \/ \E c \in CallIds : RefreshFails(c)
    \/ WithinOps /\ \E c \in CallIds, scope \in AppScopes : GetAppTokenCall(c, scope)
    \/ \E c \in CallIds : ClientTokenSucceeds(c)
    \/ \E c \in CallIds : ClientTokenFails(c)
    \/ WithinOps /\ \E scope \in Scopes : startAuthFlow(scope)
    \/ WithinOps /\ \E r \in ReqIds, q \in PlainRequests : HttpRequest(r, q[1], q[2], q[3])
    \/ \E r \in ReqIds : CodeExchangeSucceeds(r)
    \/ \E r \in ReqIds : CodeExchangeFails(r)
    \/ WithinOps /\ \E r \in ReqIds, scope \in Scopes : handleCallbackCall(r, scope)
    \/ \E r \in ReqIds : handleCallbackResolves(r)
    \/ \E r \in ReqIds : handleCallbackRejects(r)
    \/ \E l \in LoginIds : TimerFires(l)
    \/ ClearTokensCall
    \/ Tick

SpecAll == Init /\ [][NextAll]_vars


(* ---------------- what changes the stored credential ---------------- *)

(* the step is the return of a login code exchange that succeeded, of the *)
(* callback handler or of the CLI's manual exchange                        *)
LoginStored ==
    \/ ev'.op = "request" /\ ev'.how = "success"
    \/ ev'.op = "handleCallback" /\ ev'.how = "stored"

(* the step is the return of a refresh that succeeded, or that failed *)
RefreshStored == ev'.op \in {"getUserToken", "isUserAuthenticated"} /\ ev'.how = "refreshed"
RefreshGaveUp == ev'.op \in {"getUserToken", "isUserAuthenticated"} /\ ev'.how = "refreshFailed"

(* C35: the stored credential changes only through its lifecycle events:  *)
(* a successful login code exchange writes it, a successful refresh       *)
(* replaces it wholesale, logout and a failed refresh empty it; no        *)
(* getAppToken, startAuthFlow, error or malformed callback, timeout or    *)
(* getUserToken that does not refresh modifies it.                         *)
C35_LifecycleOnly ==
    [][/\ file' # file
          => \/ /\ LoginStored
                /\ file'.exists
                /\ file'.content = Some(JSONstringify(
                      CallbackTokens(ev'.resp[1], now, reqs[ev'.id].scope)))
             \/ /\ RefreshStored
                /\ file'.exists
                /\ file'.content = Some(JSONstringify(
                      Tokens(ev'.resp[1].access_token, ev'.resp[1].refresh_token,
                             calls[ev'.id].now + ev'.resp[1].expires_in * 1000,
                             calls[ev'.id].stored[1].scope)))
             \/ /\ RefreshGaveUp \/ ev'.op = "clearTokens"
                /\ file.exists /\ file'.exists
                /\ file'.content = Null
       /\ (\/ ev'.op \in {"getClientToken", "getAppToken", "startAuthFlow", "timeout",
                          "exchangeCode", "refreshToken", "tick"}
           \/ ev'.op = "request" /\ ev'.how # "success"
           \/ ev'.op = "handleCallback" /\ ev'.how # "stored"
           \/ ev'.op \in {"getUserToken", "isUserAuthenticated"}
                /\ ev'.how \notin {"refreshed", "refreshFailed"})
          => file' = file]_vars

(* a credential written by a login outlived a later login that timed out *)
C35_Witness ==
    /\ ev.op = "timeout"
    /\ \E l \in LoginIds : logins[l].outcomes = << "timeout" >>
    /\ HoldsObject(file)
    /\ asStoredTokens(file.content[1].obj).accessToken = 2


(* ---------------- the coordinator's three fields ---------------- *)

(* authInProgress, authServer and currentAuthUrl are set and reset together *)
FieldsAgree ==
    /\ authInProgress <=> authServer # 0
    /\ authInProgress <=> currentAuthUrl # Null

(* C36: in every reachable state isAuthInProgress() is true exactly when a *)
(* listener object is held and exactly when an authorization URL is        *)
(* recorded, and whenever it is true the held listener is bound to the     *)
(* callback port and can receive the callback.                             *)
C36_CoordinatorConsistent ==
    /\ FieldsAgree
    /\ (Alive /\ authInProgress) => authServer \in Listening


(* ---------------- the managers keep to their own state ---------------- *)

(* the step belongs to getAppToken *)
AppTokenStep == ev'.op \in {"getClientToken", "getAppToken"}

(* the step belongs to getUserToken, called directly or through *)
(* isUserAuthenticated                                           *)
UserTokenStep == ev'.op \in {"refreshToken", "getUserToken", "isUserAuthenticated"}

(* the step belongs to handleCallback, called by the callback handler or *)
(* by the CLI                                                             *)
HandleCallbackStep ==
    \/ ev'.op \in {"exchangeCode", "handleCallback"}
    \/ ev'.op = "request" /\ ev'.how \in {"success", "exchangeFailed"}

(* C37: getAppToken neither reads nor writes the credential store (what it *)
(* does is decided by the cache and the clock alone), getUserToken,        *)
(* isUserAuthenticated and handleCallback never change the cached app      *)
(* token, and getAppToken, getUserToken and isUserAuthenticated leave the  *)
(* login coordinator and the requests to its listener as they were.        *)
C37_NoInterference ==
    [][/\ AppTokenStep
          => /\ file' = file
             /\ calls' = calls
             /\ \A c \in CallIds :
                  AppCallStarts(c)
                    => ((ev'.how = "cached") <=> appTokenValid(appToken, now))
       /\ (UserTokenStep \/ HandleCallbackStep)
          => /\ appToken' = appToken
             /\ appCalls' = appCalls
       /\ (AppTokenStep \/ UserTokenStep)
          => /\ UNCHANGED authVars
             /\ reqs' = reqs]_vars

(* a refresh failed and cleared the store while an app token was cached: *)
(* the app token is still there                                          *)
C37_Witness ==
    /\ ev.op \in {"getUserToken", "isUserAuthenticated"}
    /\ ev.how = "refreshFailed"
    /\ file.content = Null
    /\ appToken # Null


(* ---------------- the consumers of AUTH_REQUIRED ---------------- *)

(* addToCart reached through the MCP tool and through the CLI *)
NextConsumers ==
    \/ \E c \in CallIds : ToolAddToCartCall(c)
    \/ \E c \in CallIds : CliCartAddCall(c)
    \/ \E c \in CallIds : RefreshSucceeds(c)
    \/ \E c \in CallIds : RefreshFails(c)
    \/ Tick

SpecConsumers == Init /\ [][NextConsumers]_vars

(* C38: when addToCart throws AUTH_REQUIRED because there is no user      *)
(* token, the MCP tool's error handler answers with the non-error         *)
(* 'authentication is required' guidance and the CLI's command router     *)
(* reports its 'Authentication required' message; neither passes the raw  *)
(* AUTH_REQUIRED text on as a generic error.                              *)
C38_AuthRequiredRecognised ==
    [][\A c \in CallIds :
         (/\ CallStarts(c) \/ CallReturns(c)
          /\ ev'.op \in ConsumerCallers
          /\ ev'.auth = Some("AUTH_REQUIRED"))
         => /\ ev'.out # Null
            /\ ev'.op = "add_to_cart"
                 => /\ ~ev'.out[1].isError
                    /\ ev'.out[1].text[1] = "Kroger authentication is required."
            /\ ev'.op = "cart add"
                 => /\ ev'.out[1].error # AUTH_REQUIRED_EXACT
                    /\ ev'.out[1].error[1] = AUTHENTICATION_REQUIRED]_vars


(* ---------------- requests to other paths ---------------- *)

(* the listener asked for the callback and for other paths *)
NextPaths ==
    \/ \E scope \in Scopes : startAuthFlow(scope)
    \/ \E r \in ReqIds, q \in PathRequests : HttpRequest(r, q[1], q[2], q[3])
    \/ \E r \in ReqIds : CodeExchangeSucceeds(r)
    \/ \E r \in ReqIds : CodeExchangeFails(r)

SpecPaths == Init /\ [][NextPaths]_vars

(* C39: while a login awaits its callback, a request to a path other than *)
(* the callback path is answered not-found and changes nothing: the       *)
(* listener stays open, the coordinator stays as it was, no exchange is   *)
(* sent and the credential file is not written.                           *)
C39_OtherPathsNotFound ==
    [][(/\ RequestArrives
        /\ authInProgress
        /\ Listening # {}
        /\ ev'.url # Null
        /\ ev'.url[1][1] # "/callback")
        => /\ ev'.op = "request" /\ ev'.how = "notfound" /\ ev'.ret = Some(404)
           /\ UNCHANGED authVars
           /\ Listening' = Listening
           /\ NoExchangeNoWrite]_vars

(* a request for /callback/ that carried a code was answered not-found *)
(* and the login still awaits its callback                              *)
C39_Witness ==
    /\ ev.op = "request" /\ ev.how = "notfound"
    /\ ev.url = Some(<< "/callback/", "abc", Absent >>)
    /\ authInProgress /\ authServer \in Listening
    /\ \A r \in ReqIds : reqs[r].pc # "exchanging"

====
